---- MODULE Spec2Model ----
(***************************************************************************)
(* A model of timinghooks.Timers (src/timinghooks.py).                     *)
(*                                                                         *)
(* Every Timers instance owns a dict `pairs` (interval name -> list of     *)
(* (start, end) pairs) and a threading.Lock.  Python dicts keep insertion  *)
(* order and their values are references to list objects, so the model     *)
(* keeps a heap of list objects (`lists`) and, per instance, the dict's    *)
(* key order and the reference stored under each key.  Threads run the     *)
(* methods statement by statement; a thread switch can happen between any  *)
(* two steps.                                                              *)
(***************************************************************************)
EXTENDS Integers, Sequences, FiniteSets, TLC

\* ------------------------------------------------------------------ bounds
NThreads == 3      \* threads of the model
NConc == 2         \* threads that run in Spec and SpecIntervals
MaxOps == 2        \* calls the first thread starts in Spec
OtherOps == 1      \* calls each other thread starts in Spec
MaxSeqOps == 4     \* calls of the single thread of SpecSeq
MaxIntervals == 2  \* scoped intervals of each thread in SpecIntervals
MaxClock == 1      \* the last clock reading
MaxDur == 3        \* the longest duration stored in SpecStats
MaxLen == 4        \* the most pairs a name holds in SpecStats
MaxAllOps == 4     \* calls of the single thread of SpecAll

Threads == 1 .. NThreads
NoThread == 0
Insts == {"A", "B", "C"}
Names == {"x", "y"}
Times == 0 .. MaxClock

\* A list object is identified by the instance and the name it was created for.
ListIds == Insts \X Names
NoList == <<"-", "-">>

VARIABLES
    pairs,   \* pairs[i]: the dict self.pairs of instance i: key order and references
    lists,   \* the heap of list objects: lists[id] is a sequence of <<start, end>>
    lock,    \* lock[i]: the thread holding self.lock of instance i, or NoThread
    clock,   \* the wall clock read by time.time()
    pc,      \* pc[t]: where thread t stands
    frame,   \* frame[t]: the locals of the call thread t is running
    ops,     \* ops[t]: the calls thread t may still start
    insts,   \* the instances that were constructed
    log,     \* history: log[i][n] is the pairs the scoped intervals of (i, n) appended
    touched  \* history: the instances a merge wrote to or shared a list with

vars == <<pairs, lists, lock, clock, pc, frame, ops, insts, log, touched>>

\* ------------------------------------------------------------- store access
EmptyDict == [order |-> <<>>, ref |-> [n \in Names |-> NoList]]

\* `name in self.pairs`
Has(i, n) == pairs[i].ref[n] # NoList

\* `self.pairs[name]`
Get(i, n) == lists[pairs[i].ref[n]]

\* `len(self.pairs)`
Size(i) == Len(pairs[i].order)

\* What a reader sees of instance i in the store (P, L): per name, whether it is a
\* key and the sequence stored under it.
View(P, L, i) ==
    [n \in Names |->
        IF P[i].ref[n] = NoList
        THEN [in |-> FALSE, seq |-> <<>>]
        ELSE [in |-> TRUE, seq |-> L[P[i].ref[n]]]]

NoView == [n \in Names |-> [in |-> FALSE, seq |-> <<>>]]

\* ------------------------------------------------------------------ frames
\* The statistics of one name.  The durations of the model are integers: the
\* percentiles are kept in hundredths and the mean as a fraction.
NoStats ==
    [total |-> 0, min |-> 0, max |-> 0, lowerq |-> 0, median |-> 0, upperq |-> 0,
     mean |-> [num |-> 0, den |-> 1], count |-> 0]

NoD == [n \in Names |-> [in |-> FALSE, durs |-> <<>>, stats |-> NoStats]]

\* The state __getstate__ returns, as pickle writes it: the attribute names, and
\* under 'pairs' the names in the dict's order with the sequence of each.
NoState == [keys |-> {}, order |-> <<>>, seqs |-> [n \in Names |-> <<>>]]

\* A scoped interval entered inside the block of another one of the same thread:
\* the locals of the enclosing generator wait in `outer`, and `inner` remembers what
\* became of the enclosed interval.
NoOuter == [on |-> FALSE, inst |-> "A", name |-> "x", startTime |-> 0, len0 |-> 0]

NoInner == [state |-> "none", inst |-> "A", name |-> "x", pair |-> <<0, 0>>, len0 |-> 0]

IdleFrame ==
    [op |-> "none", inst |-> "A", other |-> "A", name |-> "x",
     startTime |-> 0, endTime |-> 0,
     iterPos |-> 0, iterSize |-> 0,
     idx |-> 0, durs |-> <<>>, absent |-> FALSE,
     d |-> NoD, raised |-> "no", len0 |-> 0,
     pre |-> NoView, preO |-> NoView, post |-> NoView,
     seen |-> {}, gained |-> NoView,
     outer |-> NoOuter, inner |-> NoInner, pair |-> <<0, 0>>, locks |-> 0,
     template |-> <<>>, report |-> <<>>, state |-> NoState]

\* A store change is seen by every merge in progress that reads the changed
\* instance as `other`: the merge's frame collects the states `other` went through.
Observe(fr, u, P, L) ==
    IF fr.op = "merge" /\ pc[u] \in {"m_acquire", "m_next", "m_body"}
    THEN [fr EXCEPT !.seen = @ \cup {View(P, L, fr.other)}]
    ELSE fr

\* ----------------------------------------------------------------- the lock
\* threading.Lock: acquire blocks while another thread holds it.
LockedNever(i) == FALSE

Locked(i) == lock[i] # NoThread

\* Leaving a `with self.lock:` block releases the lock.
UnlockForgotten(i) == lock

Unlock(i) == [lock EXCEPT ![i] = NoThread]

\* ------------------------------------------------------------------ Init
\* Timers(): self.pairs = {}, self.lock = threading.Lock()
NewStore ==
    /\ pairs = [i \in Insts |-> EmptyDict]
    /\ lists = [id \in ListIds |-> <<>>]
    /\ lock = [i \in Insts |-> NoThread]
    /\ clock = 0
    /\ pc = [t \in Threads |-> "idle"]
    /\ frame = [t \in Threads |-> IdleFrame]
    /\ log = [i \in Insts |-> [n \in Names |-> <<>>]]
    /\ touched = {}

Init ==
    /\ NewStore
    /\ ops = [t \in Threads |->
          IF t = 1 THEN MaxOps ELSE IF t <= NConc THEN OtherOps ELSE 0]
    /\ insts = {"A", "B"}

\* ---------------------------------------------------------------- interval
\* An interval that would take the lock at its entry and keep it over the block.
IntervalEnterLocked(t, i, n) ==
    /\ pc[t] = "idle"
    /\ ops[t] > 0
    /\ ~Locked(i)
    /\ lock' = [lock EXCEPT ![i] = t]
    /\ \E c \in {clock, clock + 1} \cap Times :
        /\ clock' = c
        /\ frame' = [frame EXCEPT ![t] =
              [IdleFrame EXCEPT !.op = "interval", !.inst = i, !.name = n,
                                !.startTime = c,
                                !.len0 = Len(View(pairs, lists, i)[n].seq)]]
    /\ pc' = [pc EXCEPT ![t] = "block"]
    /\ ops' = [ops EXCEPT ![t] = @ - 1]
    /\ UNCHANGED <<pairs, lists, insts, log, touched>>

\* startTime = time.time(), then the generator yields to the wrapped block.
IntervalEnter(t, i, n) ==
    /\ pc[t] = "idle"
    /\ ops[t] > 0
    /\ \E c \in {clock, clock + 1} \cap Times :
        /\ clock' = c
        /\ frame' = [frame EXCEPT ![t] =
              [IdleFrame EXCEPT !.op = "interval", !.inst = i, !.name = n,
                                !.startTime = c,
                                !.len0 = Len(View(pairs, lists, i)[n].seq)]]
    /\ pc' = [pc EXCEPT ![t] = "block"]
    /\ ops' = [ops EXCEPT ![t] = @ - 1]
    /\ UNCHANGED <<pairs, lists, lock, insts, log, touched>>

\* The wrapped block completes; the generator resumes: endTime = time.time().
BlockReturns(t) ==
    /\ pc[t] = "block"
    /\ \E c \in {clock, clock + 1} \cap Times :
        /\ clock' = c
        /\ frame' = [frame EXCEPT ![t].endTime = c]
    /\ pc' = [pc EXCEPT ![t] = "acquire"]
    /\ UNCHANGED <<pairs, lists, lock, ops, insts, log, touched>>

\* The wrapped block raises: contextmanager throws the exception into the
\* generator at the yield, which has no try/finally, so the generator ends there
\* and the exception propagates to the caller of the with statement.
\* Raised by the block of an enclosed interval, the exception arrives in the block
\* of the enclosing one.
Resume(fr, how, p) ==
    [fr EXCEPT !.inst = fr.outer.inst, !.name = fr.outer.name,
               !.startTime = fr.outer.startTime, !.len0 = fr.outer.len0,
               !.endTime = 0, !.locks = 0, !.outer = NoOuter,
               !.inner = [@ EXCEPT !.state = how, !.pair = p, !.len0 = fr.len0]]

BlockRaises(t) ==
    /\ pc[t] = "block"
    /\ IF frame[t].outer.on
       THEN /\ frame' = [frame EXCEPT ![t] = Resume(@, "failed", <<0, 0>>)]
            /\ pc' = pc
       ELSE /\ frame' = [frame EXCEPT ![t].raised = "block", ![t].startTime = 0]
            /\ pc' = [pc EXCEPT ![t] = "idle"]
    /\ UNCHANGED <<pairs, lists, lock, clock, ops, insts, log, touched>>

\* with self.lock: if intervalName not in self.pairs:
\* (the keys of self.pairs change only under self.lock, so the test sees what the
\* acquisition saw)
IntervalAcquire(t) ==
    /\ pc[t] = "acquire"
    /\ ~Locked(frame[t].inst)
    /\ lock' = [lock EXCEPT ![frame[t].inst] = t]
    /\ frame' = [frame EXCEPT ![t].locks = @ + 1]
    /\ pc' = [pc EXCEPT ![t] =
          IF Has(frame[t].inst, frame[t].name) THEN "append" ELSE "create"]
    /\ UNCHANGED <<pairs, lists, clock, ops, insts, log, touched>>

\* self.pairs[intervalName] = []
IntervalCreate(t) ==
    /\ pc[t] = "create"
    /\ LET i == frame[t].inst
           n == frame[t].name
       IN /\ pairs' = [pairs EXCEPT ![i] =
                 [order |-> IF Has(i, n) THEN @.order ELSE Append(@.order, n),
                  ref |-> [@.ref EXCEPT ![n] = <<i, n>>]]]
          /\ lists' = [lists EXCEPT ![<<i, n>>] = <<>>]
    /\ frame' = [u \in Threads |-> Observe(frame[u], u, pairs', lists')]
    /\ pc' = [pc EXCEPT ![t] = "append"]
    /\ UNCHANGED <<lock, clock, ops, insts, log, touched>>

\* self.pairs[intervalName].append((startTime, endTime)), and the with block ends:
\* the call returns to its caller, which is the block of the enclosing interval when
\* there is one.
IntervalAppend(t) ==
    /\ pc[t] = "append"
    /\ LET i == frame[t].inst
           n == frame[t].name
           p == <<frame[t].startTime, frame[t].endTime>>
       IN /\ lists' = [lists EXCEPT ![pairs[i].ref[n]] = Append(@, p)]
          /\ log' = [log EXCEPT ![i][n] = Append(@, p)]
          /\ lock' = Unlock(i)
          /\ frame' = [u \in Threads |->
                Observe(IF u # t THEN frame[u]
                        ELSE IF frame[t].outer.on THEN Resume(frame[t], "done", p)
                        ELSE [frame[t] EXCEPT
                                 !.startTime = 0, !.endTime = 0,
                                 !.pair = IF frame[t].inner.state = "done"
                                          THEN p ELSE <<0, 0>>],
                        u, pairs, lists')]
    /\ pc' = [pc EXCEPT ![t] = IF frame[t].outer.on THEN "block" ELSE "idle"]
    /\ UNCHANGED <<pairs, clock, ops, insts, touched>>

\* with timings.interval(n): inside the block of an interval of the same thread.
IntervalEnterNestedSameName(t, i, n) ==
    /\ pc[t] = "block"
    /\ ops[t] > 0
    /\ frame[t].inner.state = "none"
    /\ \E c \in {clock, clock + 1} \cap Times :
        /\ clock' = c
        /\ frame' = [frame EXCEPT ![t] =
              [@ EXCEPT !.outer = [on |-> TRUE, inst |-> frame[t].inst,
                                   name |-> frame[t].name,
                                   startTime |-> frame[t].startTime,
                                   len0 |-> frame[t].len0],
                        !.inner = [NoInner EXCEPT !.state = "open", !.inst = i,
                                                  !.name = n],
                        !.startTime = c]]
    /\ ops' = [ops EXCEPT ![t] = @ - 1]
    /\ UNCHANGED <<pairs, lists, lock, pc, insts, log, touched>>

IntervalEnterNested(t, i, n) ==
    /\ pc[t] = "block"
    /\ ops[t] > 0
    /\ frame[t].inner.state = "none"
    /\ \E c \in {clock, clock + 1} \cap Times :
        /\ clock' = c
        /\ frame' = [frame EXCEPT ![t] =
              [@ EXCEPT !.outer = [on |-> TRUE, inst |-> frame[t].inst,
                                   name |-> frame[t].name,
                                   startTime |-> frame[t].startTime,
                                   len0 |-> frame[t].len0],
                        !.inner = [NoInner EXCEPT !.state = "open", !.inst = i,
                                                  !.name = n],
                        !.inst = i, !.name = n, !.startTime = c,
                        !.len0 = Len(View(pairs, lists, i)[n].seq)]]
    /\ ops' = [ops EXCEPT ![t] = @ - 1]
    /\ UNCHANGED <<pairs, lists, lock, pc, insts, log, touched>>

\* ----------------------------------------------------- getDurationsForName
\* p[1] - p[0]
DurationSwapped(p) == p[1] - p[2]

Duration(p) == p[2] - p[1]

GetDurationsCall(t, i, n) ==
    /\ pc[t] = "idle"
    /\ ops[t] > 0
    /\ frame' = [frame EXCEPT ![t] =
          [IdleFrame EXCEPT !.op = "durations", !.inst = i, !.name = n]]
    /\ pc' = [pc EXCEPT ![t] = "gd_test"]
    /\ ops' = [ops EXCEPT ![t] = @ - 1]
    /\ UNCHANGED <<pairs, lists, lock, clock, insts, log, touched>>

\* Where getDurationsForName returns to: its caller is makeSummaryDict or the user.
AfterDurations(t) ==
    IF frame[t].op \in {"summary", "report"} THEN "ms_stats" ELSE "idle"

GdTestEmpty(t) ==
    /\ pc[t] = "gd_test"
    /\ frame' = [frame EXCEPT ![t].absent = FALSE, ![t].idx = 0, ![t].durs = <<>>]
    /\ pc' = [pc EXCEPT ![t] =
          IF Has(frame[t].inst, frame[t].name) THEN "gd_iter" ELSE AfterDurations(t)]
    /\ UNCHANGED <<pairs, lists, lock, clock, ops, insts, log, touched>>

\* if intervalName in self.pairs: ... else: intervals = None
GdTest(t) ==
    /\ pc[t] = "gd_test"
    /\ IF Has(frame[t].inst, frame[t].name)
       THEN /\ frame' = [frame EXCEPT ![t].absent = FALSE, ![t].idx = 1,
                                      ![t].durs = <<>>]
            /\ pc' = [pc EXCEPT ![t] = "gd_iter"]
       ELSE /\ frame' = [frame EXCEPT ![t].absent = TRUE, ![t].idx = 0,
                                      ![t].durs = <<>>]
            /\ pc' = [pc EXCEPT ![t] = AfterDurations(t)]
    /\ UNCHANGED <<pairs, lists, lock, clock, ops, insts, log, touched>>

\* [(p[1] - p[0]) for p in self.pairs[intervalName]]: one element per step; the
\* list iterator ends when its index reaches the list's current length (the
\* reference under a key never changes once the key is there).
GdIter(t) ==
    /\ pc[t] = "gd_iter"
    /\ LET seq == Get(frame[t].inst, frame[t].name)
           k == frame[t].idx
       IN IF k <= Len(seq)
          THEN /\ frame' = [frame EXCEPT ![t].durs = Append(@, Duration(seq[k])),
                                         ![t].idx = k + 1]
               /\ pc' = pc
          ELSE /\ frame' = [frame EXCEPT ![t].idx = 0]
               /\ pc' = [pc EXCEPT ![t] = AfterDurations(t)]
    /\ UNCHANGED <<pairs, lists, lock, clock, ops, insts, log, touched>>

\* -------------------------------------------------------------------- merge
\* One pass of the loop body of merge, on the store S = [pairs, lists]:
\*   if intervalName in self.pairs: self.pairs[n].extend(other.pairs[n])
\*   else: self.pairs[n] = other.pairs[n]
MergeOneReplace(S, i, o, n) ==
    [pairs |-> [S.pairs EXCEPT ![i] =
                  [order |-> IF S.pairs[i].ref[n] # NoList THEN @.order
                             ELSE Append(@.order, n),
                   ref |-> [@.ref EXCEPT ![n] = S.pairs[o].ref[n]]]],
     lists |-> S.lists]

MergeOne(S, i, o, n) ==
    IF S.pairs[i].ref[n] # NoList
    THEN [pairs |-> S.pairs,
          lists |-> [S.lists EXCEPT ![S.pairs[i].ref[n]] =
                        @ \o S.lists[S.pairs[o].ref[n]]]]
    ELSE [pairs |-> [S.pairs EXCEPT ![i] =
                        [order |-> Append(@.order, n),
                         ref |-> [@.ref EXCEPT ![n] = S.pairs[o].ref[n]]]],
          lists |-> S.lists]

\* merge(other) run alone, on the store S: the loop body for every key of
\* other.pairs, in the dict's order.
RECURSIVE MergeFrom(_, _, _, _)
MergeFrom(S, i, o, k) ==
    IF k > Len(S.pairs[o].order)
    THEN S
    ELSE MergeFrom(MergeOne(S, i, o, S.pairs[o].order[k]), i, o, k + 1)

MergeAll(S, i, o) == MergeFrom(S, i, o, 1)

MergeCall(t, i, o) ==
    /\ pc[t] = "idle"
    /\ ops[t] > 0
    /\ frame' = [frame EXCEPT ![t] =
          [IdleFrame EXCEPT !.op = "merge", !.inst = i, !.other = o,
                            !.pre = View(pairs, lists, i),
                            !.preO = View(pairs, lists, o),
                            !.seen = {View(pairs, lists, o)}]]
    /\ pc' = [pc EXCEPT ![t] = "m_acquire"]
    /\ ops' = [ops EXCEPT ![t] = @ - 1]
    /\ UNCHANGED <<pairs, lists, lock, clock, insts, log, touched>>

\* with self.lock: for intervalName in other.pairs:
\* (the dict iterator remembers the size of other.pairs)
MergeAcquire(t) ==
    /\ pc[t] = "m_acquire"
    /\ ~Locked(frame[t].inst)
    /\ lock' = [lock EXCEPT ![frame[t].inst] = t]
    /\ frame' = [frame EXCEPT ![t].iterPos = 0, ![t].iterSize = Size(frame[t].other)]
    /\ pc' = [pc EXCEPT ![t] = "m_next"]
    /\ UNCHANGED <<pairs, lists, clock, ops, insts, log, touched>>

\* The iterator's next(): RuntimeError("dictionary changed size during iteration")
\* when the dict's size differs from the remembered one, else the next key or the
\* end of the loop.  The exception and the end of the loop leave the with block.
MergeNext(t) ==
    /\ pc[t] = "m_next"
    /\ LET o == frame[t].other
           fr == [frame[t] EXCEPT !.iterPos = 0, !.iterSize = 0, !.name = "x"]
       IN IF Size(o) # frame[t].iterSize
          THEN /\ frame' = [frame EXCEPT ![t] = [fr EXCEPT !.raised = "RuntimeError"]]
               /\ pc' = [pc EXCEPT ![t] = "idle"]
               /\ lock' = Unlock(frame[t].inst)
          ELSE IF frame[t].iterPos >= frame[t].iterSize
          THEN /\ frame' = [frame EXCEPT ![t] = fr]
               /\ pc' = [pc EXCEPT ![t] = "idle"]
               /\ lock' = Unlock(frame[t].inst)
          ELSE /\ frame' = [frame EXCEPT ![t].iterPos = @ + 1,
                                         ![t].name = pairs[o].order[frame[t].iterPos + 1]]
               /\ pc' = [pc EXCEPT ![t] = "m_body"]
               /\ lock' = lock
    /\ UNCHANGED <<pairs, lists, clock, ops, insts, log, touched>>

MergeBody(t) ==
    /\ pc[t] = "m_body"
    /\ LET i == frame[t].inst
           o == frame[t].other
           n == frame[t].name
           S == MergeOne([pairs |-> pairs, lists |-> lists], i, o, n)
           fr == [frame[t] EXCEPT !.gained[n] = [in |-> TRUE, seq |-> Get(o, n)]]
       IN /\ pairs' = S.pairs
          /\ lists' = S.lists
          /\ touched' = touched \cup {i} \cup (IF Has(i, n) THEN {} ELSE {o})
          /\ frame' = [u \in Threads |->
                Observe(IF u = t THEN fr ELSE frame[u], u, pairs', lists')]
    /\ pc' = [pc EXCEPT ![t] = "m_next"]
    /\ UNCHANGED <<lock, clock, ops, insts, log>>

\* ---------------------------------------------------------- makeSummaryDict
\* d = {}; for name in self.pairs:
SummaryCall(t, i) ==
    /\ pc[t] = "idle"
    /\ ops[t] > 0
    /\ frame' = [frame EXCEPT ![t] =
          [IdleFrame EXCEPT !.op = "summary", !.inst = i,
                            !.iterSize = Size(i),
                            !.pre = View(pairs, lists, i)]]
    /\ pc' = [pc EXCEPT ![t] = "ms_next"]
    /\ ops' = [ops EXCEPT ![t] = @ - 1]
    /\ UNCHANGED <<pairs, lists, lock, clock, insts, log, touched>>

\* Where makeSummaryDict returns to: reportFromTemplate or the user.
AfterSummary(t) == IF frame[t].op = "report" THEN "rp_format" ELSE "idle"

\* The dict iterator's next(), as in merge; at the end of the loop: return d
SummaryNext(t) ==
    /\ pc[t] = "ms_next"
    /\ LET i == frame[t].inst
           fr == [frame[t] EXCEPT !.iterPos = 0, !.iterSize = 0, !.name = "x",
                                  !.durs = <<>>, !.absent = FALSE,
                                  !.post = View(pairs, lists, i)]
       IN IF Size(i) # frame[t].iterSize
          THEN /\ frame' = [frame EXCEPT ![t] =
                     [fr EXCEPT !.raised = "RuntimeError", !.d = NoD]]
               /\ pc' = [pc EXCEPT ![t] = "idle"]
          ELSE IF frame[t].iterPos >= frame[t].iterSize
          THEN /\ frame' = [frame EXCEPT ![t] = fr]
               /\ pc' = [pc EXCEPT ![t] = AfterSummary(t)]
          ELSE /\ frame' = [frame EXCEPT ![t].iterPos = @ + 1,
                                         ![t].name = pairs[i].order[frame[t].iterPos + 1]]
               /\ pc' = [pc EXCEPT ![t] = "gd_test"]
    /\ UNCHANGED <<pairs, lists, lock, clock, ops, insts, log, touched>>

\* intervals.sum()
RECURSIVE SumSeq(_)
SumSeq(s) == IF s = <<>> THEN 0 ELSE Head(s) + SumSeq(Tail(s))

\* intervals.min(), intervals.max()
MinOf(s) == CHOOSE m \in {s[k] : k \in 1 .. Len(s)} : \A k \in 1 .. Len(s) : m <= s[k]

MaxOf(s) == CHOOSE m \in {s[k] : k \in 1 .. Len(s)} : \A k \in 1 .. Len(s) : m >= s[k]

\* numpy.percentile works on the values in ascending order.
Unsorted(s) == s

Sorted(s) == SortSeq(s, LAMBDA a, b : a < b)

\* numpy.percentile(intervals, q), method 'linear', in hundredths: the virtual
\* index is (n - 1) * q / 100, and the result lies between the values at its floor
\* and at the next index, in proportion to its fractional part.
Percentile(s, q) ==
    LET a == Sorted(s)
        n == Len(s)
        lo == ((n - 1) * q) \div 100
        frac == ((n - 1) * q) % 100
        hi == IF lo + 1 < n THEN lo + 1 ELSE lo
    IN 100 * a[lo + 1] + frac * (a[hi + 1] - a[lo + 1])

\* The record stored under d[name].
Stats(s) ==
    [total |-> SumSeq(s), min |-> MinOf(s), max |-> MaxOf(s),
     lowerq |-> Percentile(s, 25), median |-> Percentile(s, 50),
     upperq |-> Percentile(s, 75),
     mean |-> [num |-> SumSeq(s), den |-> Len(s)], count |-> Len(s)]

\* Two ways to get makeSummaryDict wrong: a record of no values for a name without
\* a duration, and d bound anew for every name.
SummaryStatsNaN(t) ==
    /\ pc[t] = "ms_stats"
    /\ frame' = [frame EXCEPT ![t] =
          [@ EXCEPT !.d[frame[t].name] =
                        [in |-> TRUE, durs |-> frame[t].durs,
                         stats |-> IF frame[t].durs = <<>> THEN NoStats
                                   ELSE Stats(frame[t].durs)],
                    !.durs = <<>>, !.absent = FALSE]]
    /\ pc' = [pc EXCEPT ![t] = "ms_next"]
    /\ UNCHANGED <<pairs, lists, lock, clock, ops, insts, log, touched>>

SummaryStatsRebinds(t) ==
    /\ pc[t] = "ms_stats"
    /\ frame[t].durs # <<>>
    /\ frame' = [frame EXCEPT ![t] =
          [@ EXCEPT !.d = [NoD EXCEPT ![frame[t].name] =
                              [in |-> TRUE, durs |-> frame[t].durs,
                               stats |-> Stats(frame[t].durs)]],
                    !.durs = <<>>]]
    /\ pc' = [pc EXCEPT ![t] = "ms_next"]
    /\ UNCHANGED <<pairs, lists, lock, clock, ops, insts, log, touched>>

\* intervals = numpy.array(durations); intervals.sum(), .min(), .max(), ...;
\* d[name] = {...}.  numpy's min of an empty array raises ValueError, and so does
\* a reduction of numpy.array(None).
SummaryStats(t) ==
    /\ pc[t] = "ms_stats"
    /\ LET i == frame[t].inst
       IN IF frame[t].absent \/ frame[t].durs = <<>>
          THEN /\ frame' = [frame EXCEPT ![t] =
                     [@ EXCEPT !.raised = "ValueError", !.d = NoD, !.durs = <<>>,
                               !.absent = FALSE, !.iterPos = 0, !.iterSize = 0,
                               !.name = "x", !.post = View(pairs, lists, i)]]
               /\ pc' = [pc EXCEPT ![t] = "idle"]
          ELSE /\ frame' = [frame EXCEPT ![t] =
                     [@ EXCEPT !.d[frame[t].name] =
                                   [in |-> TRUE, durs |-> frame[t].durs,
                                    stats |-> Stats(frame[t].durs)],
                               !.durs = <<>>]]
               /\ pc' = [pc EXCEPT ![t] = "ms_next"]
    /\ UNCHANGED <<pairs, lists, lock, clock, ops, insts, log, touched>>

\* -------------------------------------------------------- reportFromTemplate
\* The keys of the record of line 123.
StatNamesDocumented == {"total", "min", "max", "mean", "median", "upperq", "count"}

StatNames == {"total", "min", "max", "lowerq", "median", "upperq", "mean", "count"}

\* "{}@{}".format(intervalName, stat)
FieldName(n, stat) == n \o "@" \o stat

\* fieldDict: one field per name of the summary and statistic of its record.
FieldDict(d) ==
    LET keys == {ns \in Names \X StatNames : d[ns[1]].in}
    IN [f \in {FieldName(ns[1], ns[2]) : ns \in keys} |->
          LET ns == CHOOSE ns \in keys : FieldName(ns[1], ns[2]) = f
          IN d[ns[1]].stats[ns[2]]]

\* A template is the sequence of the replacement fields of templateStr.
Templates ==
    {<<>>, <<"x@total">>, <<"y@count", "x@lowerq">>, <<"x@mean", "x@totl">>,
     <<"z@total">>}

\* summary = self.makeSummaryDict()
ReportCall(t, i, tpl) ==
    /\ pc[t] = "idle"
    /\ ops[t] > 0
    /\ frame' = [frame EXCEPT ![t] =
          [IdleFrame EXCEPT !.op = "report", !.inst = i, !.template = tpl,
                            !.iterSize = Size(i),
                            !.pre = View(pairs, lists, i)]]
    /\ pc' = [pc EXCEPT ![t] = "ms_next"]
    /\ ops' = [ops EXCEPT ![t] = @ - 1]
    /\ UNCHANGED <<pairs, lists, lock, clock, insts, log, touched>>

\* fieldDict = {...}; report = templateStr.format(**fieldDict): the value of every
\* replacement field is looked up in fieldDict (KeyError when it is not there) and
\* put in the field's place.
ReportFormat(t) ==
    /\ pc[t] = "rp_format"
    /\ LET fieldDict == FieldDict(frame[t].d)
           tpl == frame[t].template
       IN IF \E k \in 1 .. Len(tpl) : tpl[k] \notin DOMAIN fieldDict
          THEN frame' = [frame EXCEPT ![t].raised = "KeyError", ![t].report = <<>>]
          ELSE frame' = [frame EXCEPT ![t].report =
                            [k \in 1 .. Len(tpl) |-> fieldDict[tpl[k]]]]
    /\ pc' = [pc EXCEPT ![t] = "idle"]
    /\ UNCHANGED <<pairs, lists, lock, clock, ops, insts, log, touched>>

\* ------------------------------------------------ __getstate__, __setstate__
\* The attributes of an instance: self.__dict__ has 'pairs' and 'lock'.
Attrs == {"pairs", "lock"}

StateKeysAll == Attrs

\* d.update(self.__dict__); d.pop('lock')
StateKeys == Attrs \ {"lock"}

\* pickle.dumps(timings) calls timings.__getstate__(): d = {}; with self.lock:
ExportCall(t, i) ==
    /\ pc[t] = "idle"
    /\ ops[t] > 0
    /\ frame' = [frame EXCEPT ![t] =
          [IdleFrame EXCEPT !.op = "export", !.inst = i]]
    /\ pc' = [pc EXCEPT ![t] = "gs_acquire"]
    /\ ops' = [ops EXCEPT ![t] = @ - 1]
    /\ UNCHANGED <<pairs, lists, lock, clock, insts, log, touched>>

GetStateAcquire(t) ==
    /\ pc[t] = "gs_acquire"
    /\ ~Locked(frame[t].inst)
    /\ lock' = [lock EXCEPT ![frame[t].inst] = t]
    /\ pc' = [pc EXCEPT ![t] = "gs_copy"]
    /\ UNCHANGED <<pairs, lists, clock, frame, ops, insts, log, touched>>

\* d.update(self.__dict__), the with block ends, d.pop('lock'), return d: d['pairs']
\* is the dict self.pairs itself.
GetStateCopy(t) ==
    /\ pc[t] = "gs_copy"
    /\ frame' = [frame EXCEPT ![t].state.keys = StateKeys]
    /\ lock' = Unlock(frame[t].inst)
    /\ pc' = [pc EXCEPT ![t] = "gs_dump"]
    /\ UNCHANGED <<pairs, lists, clock, ops, insts, log, touched>>

\* pickle writes the state out: the names of self.pairs in the dict's order, each
\* with its list of pairs, as they are now.
Dump(t) ==
    /\ pc[t] = "gs_dump"
    /\ LET i == frame[t].inst
       IN frame' = [frame EXCEPT
             ![t].state.order = pairs[i].order,
             ![t].state.seqs = [n \in Names |-> View(pairs, lists, i)[n].seq],
             ![t].pre = View(pairs, lists, i)]
    /\ pc' = [pc EXCEPT ![t] = "idle"]
    /\ UNCHANGED <<pairs, lists, lock, clock, ops, insts, log, touched>>

\* States written by other hands: a name with no pair, alone and after a name
\* with one.
ForeignStates ==
    {[keys |-> StateKeys, order |-> <<"x">>, seqs |-> [n \in Names |-> <<>>]],
     [keys |-> StateKeys, order |-> <<"y", "x">>,
      seqs |-> [n \in Names |-> IF n = "y" THEN << <<0, 1>> >> ELSE <<>>]]}

\* What the thread can unpickle: the state it exported last, or a foreign one.
ImportInputs(t) ==
    (IF pc[t] = "idle" /\ frame[t].op = "export" THEN {frame[t].state} ELSE {})
        \cup ForeignStates

\* The instance pickle.loads creates (object.__new__: no attribute yet).
Fresh == "C"

\* pickle.loads(...): the new instance's __setstate__(state) is called.
ImportCall(t, st) ==
    /\ pc[t] = "idle"
    /\ ops[t] > 0
    /\ Fresh \notin insts
    /\ frame' = [frame EXCEPT ![t] =
          [IdleFrame EXCEPT
              !.op = "import", !.inst = Fresh, !.state = st,
              !.other = IF frame[t].op = "export" /\ st = frame[t].state
                        THEN frame[t].inst ELSE Fresh,
              !.pre = IF frame[t].op = "export" /\ st = frame[t].state
                      THEN frame[t].pre ELSE NoView]]
    /\ pc' = [pc EXCEPT ![t] = "ss_update"]
    /\ ops' = [ops EXCEPT ![t] = @ - 1]
    /\ UNCHANGED <<pairs, lists, lock, clock, insts, log, touched>>

\* self.lock = threading.Lock(); with self.lock: self.__dict__.update(state).
\* The dict and the lists of the state were built by pickle.loads: they belong to
\* the new instance alone.
SetState(t) ==
    /\ pc[t] = "ss_update"
    /\ LET j == frame[t].inst
           st == frame[t].state
           has == {st.order[k] : k \in 1 .. Len(st.order)}
       IN /\ pairs' = [pairs EXCEPT ![j] =
                 [order |-> st.order,
                  ref |-> [n \in Names |-> IF n \in has THEN <<j, n>> ELSE NoList]]]
          /\ lists' = [id \in ListIds |->
                 IF id[1] = j /\ id[2] \in has THEN st.seqs[id[2]] ELSE lists[id]]
          /\ lock' = [lock EXCEPT ![j] = NoThread]
          /\ insts' = insts \cup {j}
          /\ touched' = touched \cup {j}
    /\ pc' = [pc EXCEPT ![t] = "idle"]
    /\ UNCHANGED <<clock, frame, ops, log>>

\* ------------------------------------------------------------------- specs
Next ==
    \E t \in Threads :
        \/ \E i \in insts, n \in Names : IntervalEnter(t, i, n)
        \/ BlockReturns(t)
        \/ BlockRaises(t)
        \/ IntervalAcquire(t)
        \/ IntervalCreate(t)
        \/ IntervalAppend(t)
        \/ \E i \in insts, n \in Names : GetDurationsCall(t, i, n)
        \/ GdTest(t)
        \/ GdIter(t)
        \/ \E i \in insts, o \in insts : MergeCall(t, i, o)
        \/ MergeAcquire(t)
        \/ MergeNext(t)
        \/ MergeBody(t)
        \/ \E i \in insts : SummaryCall(t, i)
        \/ SummaryNext(t)
        \/ SummaryStats(t)

Spec == Init /\ [][Next]_vars

\* One thread, three instances.
InitSeq ==
    /\ NewStore
    /\ ops = [t \in Threads |-> IF t = 1 THEN MaxSeqOps ELSE 0]
    /\ insts = Insts

SpecSeq == InitSeq /\ [][Next]_vars

\* NConc threads, each completing MaxIntervals scoped intervals of "x" on A.
InitIntervals ==
    /\ NewStore
    /\ ops = [t \in Threads |-> IF t <= NConc THEN MaxIntervals ELSE 0]
    /\ insts = {"A"}

NextIntervals ==
    \E t \in Threads :
        \/ IntervalEnter(t, "A", "x")
        \/ BlockReturns(t)
        \/ IntervalAcquire(t)
        \/ IntervalCreate(t)
        \/ IntervalAppend(t)

SpecIntervals == InitIntervals /\ [][NextIntervals]_vars

\* The calls that take a lock, on A and B, which already hold intervals: every
\* thread starts one of them.  A started call is not suspended for ever while it
\* can take a step (a thread waiting for a lock can take none).
InitFair ==
    /\ pairs = [i \in Insts |->
          IF i = "A" THEN [order |-> <<"x">>,
                           ref |-> [n \in Names |-> IF n = "x" THEN <<"A", "x">> ELSE NoList]]
          ELSE IF i = "B" THEN [order |-> <<"y">>,
                           ref |-> [n \in Names |-> IF n = "y" THEN <<"B", "y">> ELSE NoList]]
          ELSE EmptyDict]
    /\ lists = [id \in ListIds |->
          IF id \in {<<"A", "x">>, <<"B", "y">>} THEN << <<0, 0>> >> ELSE <<>>]
    /\ lock = [i \in Insts |-> NoThread]
    /\ clock = MaxClock
    /\ pc = [t \in Threads |-> "idle"]
    /\ frame = [t \in Threads |-> IdleFrame]
    /\ log = [i \in Insts |-> [n \in Names |->
          IF <<i, n>> \in {<<"A", "x">>, <<"B", "y">>} THEN << <<0, 0>> >> ELSE <<>>]]
    /\ touched = {}
    /\ ops = [t \in Threads |-> 1]
    /\ insts = {"A", "B"}

NextLocking ==
    \E t \in Threads :
        \/ \E i \in insts, n \in Names : IntervalEnter(t, i, n)
        \/ BlockReturns(t)
        \/ BlockRaises(t)
        \/ IntervalAcquire(t)
        \/ IntervalCreate(t)
        \/ IntervalAppend(t)
        \/ \E i \in insts, o \in insts : MergeCall(t, i, o)
        \/ MergeAcquire(t)
        \/ MergeNext(t)
        \/ MergeBody(t)

Running(t) ==
    \/ BlockReturns(t)
    \/ BlockRaises(t)
    \/ IntervalAcquire(t)
    \/ MergeAcquire(t)
    \/ IntervalCreate(t)
    \/ IntervalAppend(t)
    \/ MergeNext(t)
    \/ MergeBody(t)

Fairness == \A t \in Threads : WF_vars(Running(t))

SpecFair == InitFair /\ [][NextLocking]_vars /\ Fairness

\* One thread and every operation; A and B are constructed, C comes from
\* pickle.loads.
InitAll ==
    /\ NewStore
    /\ ops = [t \in Threads |-> IF t = 1 THEN MaxAllOps ELSE 0]
    /\ insts = {"A", "B"}

NextAll ==
    \/ Next
    \/ \E t \in Threads :
        \/ \E i \in insts, n \in Names : IntervalEnterNested(t, i, n)
        \/ \E i \in insts, tpl \in Templates : ReportCall(t, i, tpl)
        \/ ReportFormat(t)
        \/ \E i \in insts : ExportCall(t, i)
        \/ GetStateAcquire(t)
        \/ GetStateCopy(t)
        \/ Dump(t)
        \/ \E st \in ImportInputs(t) : ImportCall(t, st)
        \/ SetState(t)

SpecAll == InitAll /\ [][NextAll]_vars

\* One summary of an instance whose name "x" holds one to MaxLen pairs with
\* durations of 0 to MaxDur.
DurationSeqs == UNION {[1 .. m -> 0 .. MaxDur] : m \in 1 .. MaxLen}

InitStats ==
    /\ \E s \in DurationSeqs :
          LET ps == [k \in 1 .. Len(s) |-> <<0, s[k]>>]
          IN /\ lists = [id \in ListIds |-> IF id = <<"A", "x">> THEN ps ELSE <<>>]
             /\ log = [i \in Insts |-> [n \in Names |->
                   IF <<i, n>> = <<"A", "x">> THEN ps ELSE <<>>]]
    /\ pairs = [i \in Insts |->
          IF i = "A" THEN [order |-> <<"x">>,
                           ref |-> [n \in Names |-> IF n = "x" THEN <<"A", "x">> ELSE NoList]]
          ELSE EmptyDict]
    /\ lock = [i \in Insts |-> NoThread]
    /\ clock = MaxClock
    /\ pc = [t \in Threads |-> "idle"]
    /\ frame = [t \in Threads |-> IdleFrame]
    /\ touched = {}
    /\ ops = [t \in Threads |-> IF t = 1 THEN 1 ELSE 0]
    /\ insts = {"A"}

NextStats ==
    \E t \in Threads :
        \/ SummaryCall(t, "A")
        \/ SummaryNext(t)
        \/ GdTest(t)
        \/ GdIter(t)
        \/ SummaryStats(t)

SpecStats == InitStats /\ [][NextStats]_vars

\* ------------------------------------------------------------------ claims
Returned(t, op) == pc[t] = "idle" /\ frame[t].op = op

Stored(i, n) == View(pairs, lists, i)[n]

\* C1: when every one of the NConc threads has completed its MaxIntervals scoped
\* intervals of "x" on A, in whatever interleaving, A holds exactly
\* NConc * MaxIntervals pairs for "x".
AllIntervalsDone == \A t \in Threads : pc[t] = "idle" /\ ops[t] = 0

C1_NoLostPairs ==
    AllIntervalsDone => Len(Stored("A", "x").seq) = NConc * MaxIntervals

C1_Witness ==
    /\ AllIntervalsDone
    /\ Len(Stored("A", "x").seq) = NConc * MaxIntervals
    /\ \A t \in 1 .. NConc : frame[t].op = "interval"

\* C2: after every exit of a scoped interval of (i, n), by return or by failure of
\* the wrapped block, the sequence of n on i is one pair longer than at entry (one
\* thread).
C2_PairRecordedOnEveryExit ==
    \A t \in Threads :
        Returned(t, "interval") =>
            Len(Stored(frame[t].inst, frame[t].name).seq) = frame[t].len0 + 1

\* C3: on an instance that only recorded scoped intervals, getDurationsForName(X)
\* returns one value per interval completed under X, the k-th being end - start of
\* the k-th pair appended, in the order of appending (none completed: None).
C3_DurationsInRecordingOrder ==
    \A t \in Threads :
        (Returned(t, "durations") /\ frame[t].inst \notin touched) =>
            LET done == log[frame[t].inst][frame[t].name]
            IN IF done = <<>>
               THEN frame[t].absent
               ELSE /\ ~frame[t].absent
                    /\ Len(frame[t].durs) = Len(done)
                    /\ \A k \in 1 .. Len(done) :
                          frame[t].durs[k] = done[k][2] - done[k][1]

C3_Witness ==
    \E t \in Threads :
        /\ Returned(t, "durations")
        /\ frame[t].inst \notin touched
        /\ Len(frame[t].durs) = 2
        /\ frame[t].durs[1] # frame[t].durs[2]

\* C4: merge(other) leaves, for every name of other, self's old sequence followed by
\* other's sequence (other's sequence alone when self did not have the name), and
\* leaves the names that other does not have as they were (one thread).
C4_MergeConcatenates ==
    \A t \in Threads :
        (Returned(t, "merge") /\ frame[t].raised = "no") =>
            \A n \in Names :
                LET old == frame[t].pre[n]
                    oth == frame[t].preO[n]
                    new == Stored(frame[t].inst, n)
                IN IF oth.in
                   THEN /\ new.in
                        /\ new.seq = (IF old.in THEN old.seq ELSE <<>>) \o oth.seq
                   ELSE new = old

C4_Witness ==
    \E t \in Threads :
        /\ Returned(t, "merge")
        /\ frame[t].raised = "no"
        /\ frame[t].inst # frame[t].other
        /\ \E n \in Names :
              /\ frame[t].pre[n].in /\ frame[t].preO[n].in
              /\ frame[t].pre[n].seq # frame[t].preO[n].seq
              /\ frame[t].preO[n].seq # <<>>
        /\ \E n \in Names : ~frame[t].pre[n].in /\ frame[t].preO[n].in

\* C5: a merge that runs while other threads record on `other` returns without
\* failure, and what it read from `other` is `other` as it stood at one instant of
\* the merge.
C5_MergeReadsSnapshot ==
    \A t \in Threads :
        Returned(t, "merge") =>
            /\ frame[t].raised = "no"
            /\ frame[t].gained \in frame[t].seen

\* C6: a thread that set out to take a lock (an interval's exit, a merge) gets to
\* the end of its call and holds no lock then, whatever the other threads do.
TakesLock(t) == pc[t] \in {"acquire", "create", "append", "m_acquire", "m_next", "m_body"}

HoldsNoLock(t) == \A i \in Insts : lock[i] # t

C6_LockedCallsComplete ==
    \A t \in Threads : TakesLock(t) ~> (pc[t] = "idle" /\ HoldsNoLock(t))

C6_Witness ==
    \E t, u, v \in Threads :
        /\ pc[t] = "m_acquire" /\ frame[t].inst = "A" /\ frame[t].other = "B"
        /\ pc[u] = "m_body" /\ frame[u].inst = "B" /\ frame[u].other = "A"
        /\ pc[v] = "append" /\ frame[v].inst = "A"
        /\ lock["A"] = v /\ lock["B"] = u

\* C7: getDurationsForName tests the name and reads its sequence only while the
\* calling thread holds the instance's lock.
C7_DurationsReadUnderLock ==
    \A t \in Threads :
        (pc[t] \in {"gd_test", "gd_iter"} /\ frame[t].op = "durations") =>
            lock[frame[t].inst] = t

\* C8: makeSummaryDict always returns a summary; every name that had a pair when the
\* call began is in it, and the count of a name lies between the number of pairs
\* stored when the call began and the number stored when it returned.
C8_SummaryUnderRecording ==
    \A t \in Threads :
        Returned(t, "summary") =>
            /\ frame[t].raised = "no"
            /\ \A n \in Names :
                  /\ (frame[t].pre[n].in /\ frame[t].pre[n].seq # <<>>) => frame[t].d[n].in
                  /\ frame[t].d[n].in =>
                        /\ Len(frame[t].pre[n].seq) <= Len(frame[t].d[n].durs)
                        /\ Len(frame[t].d[n].durs) <= Len(frame[t].post[n].seq)

\* C9: with C empty, merging A into B and then B into C gives C, for every name,
\* the same pairs with the same multiplicities as merging A into C and B into C, in
\* either order.
Occurrences(seq, p) == Cardinality({k \in 1 .. Len(seq) : seq[k] = p})

SameContent(S, T) ==
    \A n \in Names :
        LET a == View(S.pairs, S.lists, "C")[n]
            b == View(T.pairs, T.lists, "C")[n]
        IN /\ a.in = b.in
           /\ Len(a.seq) = Len(b.seq)
           /\ \A p \in Times \X Times : Occurrences(a.seq, p) = Occurrences(b.seq, p)

Quiet == \A t \in Threads : pc[t] = "idle"

C9_MergeContentAssociative ==
    (Quiet /\ Size("C") = 0) =>
        LET S0 == [pairs |-> pairs, lists |-> lists]
            viaB == MergeAll(MergeAll(S0, "B", "A"), "C", "B")
            AthenB == MergeAll(MergeAll(S0, "C", "A"), "C", "B")
            BthenA == MergeAll(MergeAll(S0, "C", "B"), "C", "A")
        IN SameContent(viaB, AthenB) /\ SameContent(viaB, BthenA)

C9_Witness ==
    /\ Quiet
    /\ Size("C") = 0
    /\ Stored("A", "x").in /\ Stored("B", "x").in /\ Stored("B", "y").in
    /\ ~Stored("A", "y").in
    /\ Stored("A", "x").seq # Stored("B", "x").seq
    /\ Len(Stored("B", "x").seq) >= 2
    /\ pairs["A"].ref["x"] # pairs["B"].ref["x"]

\* C10: getDurationsForName(X) answers None exactly when X is not a key of
\* self.pairs at its test, and no step of the call changes the store.
InDurations(t) == pc[t] \in {"gd_test", "gd_iter"}

C10_AbsentIffNotKey ==
    [][\A t \in Threads :
          /\ (pc[t] = "gd_test" /\ pc'[t] # "gd_test") =>
                frame'[t].absent = ~Has(frame[t].inst, frame[t].name)
          /\ (InDurations(t) /\ (pc'[t] # pc[t] \/ frame'[t] # frame[t])) =>
                (pairs' = pairs /\ lists' = lists)]_vars

C10_Witness ==
    \E t \in Threads :
        /\ Returned(t, "durations")
        /\ frame[t].absent
        /\ ~Has(frame[t].inst, frame[t].name)
        /\ \E n \in Names : Has(frame[t].inst, n)

\* C11: the record makeSummaryDict returns for a name with pairs has count = the
\* number of pairs, total = the sum of the durations, min and max the smallest and
\* the largest duration, min <= lowerq <= median <= upperq <= max and
\* min <= mean <= max (integer durations; percentiles in hundredths, the mean as a
\* fraction).
DurationsOf(seq) == [k \in 1 .. Len(seq) |-> seq[k][2] - seq[k][1]]

C11_SummaryStatistics ==
    \A t \in Threads :
        (Returned(t, "summary") /\ frame[t].raised = "no") =>
            \A n \in Names :
                frame[t].d[n].in =>
                    LET st == frame[t].d[n].stats
                        D == DurationsOf(Stored(frame[t].inst, n).seq)
                        K == 1 .. Len(D)
                    IN /\ D # <<>>
                       /\ st.count = Len(D)
                       /\ st.total = SumSeq(D)
                       /\ \A k \in K : st.min <= D[k] /\ D[k] <= st.max
                       /\ \E k \in K : st.min = D[k]
                       /\ \E k \in K : st.max = D[k]
                       /\ 100 * st.min <= st.lowerq
                       /\ st.lowerq <= st.median
                       /\ st.median <= st.upperq
                       /\ st.upperq <= 100 * st.max
                       /\ st.min * st.mean.den <= st.mean.num
                       /\ st.mean.num <= st.max * st.mean.den
                       /\ st.mean.den = st.count /\ st.mean.num = st.total

C11_Witness ==
    \E t \in Threads :
        /\ Returned(t, "summary")
        /\ frame[t].raised = "no"
        /\ frame[t].d["x"].in
        /\ LET st == frame[t].d["x"].stats
           IN /\ st.count = MaxLen
              /\ 100 * st.min < st.lowerq
              /\ st.lowerq < st.median
              /\ st.median < st.upperq
              /\ st.upperq < 100 * st.max
              /\ st.lowerq % 100 # 0
              /\ Stored("A", "x").seq[1][2] > Stored("A", "x").seq[2][2]

\* C12: reportFromTemplate raises KeyError exactly when the template has a field
\* that is not "<name>@<stat>" for a key of the store and one of the eight
\* statistics; otherwise it returns the template with the value of every field in
\* the field's place; the store is as it was in both cases.
ClaimedStats == {"total", "min", "max", "mean", "median", "lowerq", "upperq", "count"}

ReportAsClaimed(t) ==
    LET tpl == frame[t].template
        K == 1 .. Len(tpl)
        before == frame[t].pre
        known == {ns \in Names \X ClaimedStats : before[ns[1]].in}
        IsField(f, ns) == f = ns[1] \o "@" \o ns[2]
        allKnown == \A k \in K : \E ns \in known : IsField(tpl[k], ns)
    IN /\ frame[t].raised = "KeyError" <=> ~allKnown
       /\ allKnown =>
             /\ frame[t].raised = "no"
             /\ Len(frame[t].report) = Len(tpl)
             /\ \A k \in K : \A ns \in known :
                   IsField(tpl[k], ns) =>
                       frame[t].report[k] =
                           Stats(DurationsOf(before[ns[1]].seq))[ns[2]]
       /\ View(pairs, lists, frame[t].inst) = before

NoEmptySequence(view) == \A n \in Names : view[n].in => view[n].seq # <<>>

C13_ExportImportRoundTrip ==
    \A t \in Threads :
        /\ Returned(t, "export") =>
              /\ "pairs" \in frame[t].state.keys
              /\ "lock" \notin frame[t].state.keys
              /\ frame[t].state.order = pairs[frame[t].inst].order
              /\ \A n \in Names :
                    frame[t].state.seqs[n] = Stored(frame[t].inst, n).seq
        /\ (Returned(t, "import") /\ frame[t].other # frame[t].inst) =>
              /\ pairs[frame[t].inst].order = pairs[frame[t].other].order
              /\ View(pairs, lists, frame[t].inst) = frame[t].pre
              /\ View(pairs, lists, frame[t].inst) = View(pairs, lists, frame[t].other)
              /\ lock[frame[t].inst] = NoThread
        /\ (pc[t] = "acquire" /\ frame[t].inst = Fresh) => ~Locked(Fresh)

C13_Witness ==
    \E t \in Threads :
        /\ Returned(t, "import")
        /\ frame[t].other = "A"
        /\ pairs[Fresh].order = <<"y", "x">>
        /\ Stored(Fresh, "x").seq # <<>>
        /\ lock[Fresh] = NoThread

\* C14: an interval entered and left inside the block of another interval of the
\* same thread records its pair before the enclosing one records its own; each
\* records exactly one pair, and outer.start <= inner.start <= inner.end <=
\* outer.end (same name or not; the clock does not go back).
SameList(t) ==
    pairs[frame[t].inst].ref[frame[t].name]
        = pairs[frame[t].inner.inst].ref[frame[t].inner.name]

C14_NestedIntervals ==
    \A t \in Threads :
        LET fr == frame[t]
            oseq == Stored(fr.inst, fr.name).seq
            iseq == Stored(fr.inner.inst, fr.inner.name).seq
        IN /\ (pc[t] = "block" /\ fr.inner.state = "done") =>
                 /\ Len(iseq) = fr.inner.len0 + 1
                 /\ iseq[Len(iseq)] = fr.inner.pair
                 /\ Len(oseq) = fr.len0 + (IF SameList(t) THEN 1 ELSE 0)
           /\ (Returned(t, "interval") /\ fr.raised = "no" /\ fr.inner.state = "done") =>
                 /\ Len(oseq) = fr.len0 + (IF SameList(t) THEN 2 ELSE 1)
                 /\ Len(iseq) = fr.inner.len0 + (IF SameList(t) THEN 2 ELSE 1)
                 /\ oseq[Len(oseq)] = fr.pair
                 /\ iseq[Len(iseq) - (IF SameList(t) THEN 1 ELSE 0)] = fr.inner.pair
                 /\ fr.pair[1] <= fr.inner.pair[1]
                 /\ fr.inner.pair[1] <= fr.inner.pair[2]
                 /\ fr.inner.pair[2] <= fr.pair[2]

C14_Witness ==
    \E t \in Threads :
        /\ Returned(t, "interval")
        /\ frame[t].raised = "no"
        /\ frame[t].inner.state = "done"
        /\ frame[t].inner.name # frame[t].name
        /\ frame[t].inner.inst = frame[t].inst
        /\ frame[t].pair = <<0, 1>>
        /\ frame[t].inner.pair = <<1, 1>>

\* C15: makeSummaryDict on a store that holds a name with an empty sequence
\* (unpickled, or merged from an unpickled instance) raises ValueError and returns
\* nothing; no record is ever made of no durations.
C15_EmptySequenceFails ==
    \A t \in Threads :
        /\ (Returned(t, "summary") /\ ~NoEmptySequence(frame[t].pre)) =>
              /\ frame[t].raised = "ValueError"
              /\ frame[t].d = NoD
        /\ \A n \in Names : frame[t].d[n].in => frame[t].d[n].stats.count > 0

C15_Witness ==
    \E t \in Threads :
        /\ Returned(t, "summary")
        /\ frame[t].raised = "ValueError"
        /\ frame[t].inst = "A"
        /\ frame[t].pre["x"].in /\ frame[t].pre["x"].seq = <<>>
        /\ frame[t].pre["y"].in /\ frame[t].pre["y"].seq # <<>>

\* C16: the names of the dict makeSummaryDict returns are the keys of the store at
\* the call (one thread); a new instance has no key and its summary is empty.
C16_SummaryKeys ==
    /\ \A t \in Threads :
          (Returned(t, "summary") /\ frame[t].raised = "no") =>
              /\ {n \in Names : frame[t].d[n].in} = {n \in Names : frame[t].pre[n].in}
              /\ {n \in Names : frame[t].d[n].in} = {n \in Names : Has(frame[t].inst, n)}
    /\ \A t \in Threads :
          (Returned(t, "summary") /\ frame[t].pre = NoView) =>
              frame[t].raised = "no" /\ frame[t].d = NoD
    /\ (\A t \in Threads : frame[t].op = "none") => \A i \in insts : Size(i) = 0

C16_Witness ==
    \E t \in Threads :
        /\ Returned(t, "summary")
        /\ frame[t].raised = "no"
        /\ frame[t].d["x"].in /\ frame[t].d["y"].in
        /\ frame[t].d["x"].stats # frame[t].d["y"].stats

\* C17: the store of an instance changes only by steps of calls on that instance
\* (the exit of an interval, a merge into it, its __setstate__): a merge does not
\* change `other`, and after a merge a recording on one of the two instances does
\* not show in the other.
WritesTo(t, j) ==
    /\ frame[t].inst = j
    /\ pc[t] \in {"create", "append", "m_body", "ss_update"}

C17_StoresIndependentAfterMerge ==
    [][\A j \in Insts :
          View(pairs, lists, j)' # View(pairs, lists, j) =>
              \E t \in Threads : WritesTo(t, j) /\ pc'[t] # pc[t]]_vars

\* C18: a thread in interval() holds no lock when it reads the clock, while the
\* block runs and when the call has returned; it takes the instance's lock once,
\* after endTime is read, and holds it, and no other lock, for the creation of the
\* list and the append.
C18_LockOnlyAroundAppend ==
    \A t \in Threads :
        frame[t].op = "interval" =>
            /\ pc[t] \in {"idle", "block", "acquire"} => HoldsNoLock(t)
            /\ pc[t] \in {"block", "acquire"} => frame[t].locks = 0
            /\ pc[t] \in {"create", "append"} =>
                  /\ frame[t].locks = 1
                  /\ \A i \in Insts : lock[i] = t <=> i = frame[t].inst
            /\ (pc[t] = "idle" /\ frame[t].raised = "no") => frame[t].locks = 1

C18_Witness ==
    \E t, u \in Threads :
        /\ pc[t] = "block" /\ frame[t].inst = "A" /\ frame[t].name = "x"
        /\ Returned(u, "interval") /\ frame[u].inst = "A" /\ frame[u].name = "x"
        /\ frame[u].raised = "no" /\ frame[u].locks = 1
        /\ frame[t].startTime = 0
        /\ Stored("A", "x").seq = << <<1, 1>> >>

\* C19: every key of the store of a constructed instance has at least one pair, in
\* every state; an interval that has not returned yet adds no key.
C19_EveryKeyHasAPair ==
    \A i \in insts : \A n \in Names : Has(i, n) => Get(i, n) # <<>>

\* C20: no step removes a name from a store or changes the pairs a name already
\* has: the new sequence begins with the old one; only the exit of an interval, a
\* merge and __setstate__ change a store, never getDurationsForName,
\* makeSummaryDict, reportFromTemplate or __getstate__.
IsPrefix(a, b) == Len(a) <= Len(b) /\ SubSeq(b, 1, Len(a)) = a

Writing(t) == pc[t] \in {"create", "append", "m_body", "ss_update"}

C20_StoreOnlyGrows ==
    [][/\ \A i \in Insts : \A n \in Names :
             Has(i, n) =>
                 /\ pairs'[i].ref[n] # NoList
                 /\ IsPrefix(Get(i, n), lists'[pairs'[i].ref[n]])
       /\ \A i \in Insts : IsPrefix(pairs[i].order, pairs'[i].order)
       /\ (pairs' # pairs \/ lists' # lists) =>
             \E t \in Threads : Writing(t) /\ pc'[t] # pc[t]]_vars

C20_Witness ==
    \E t \in Threads :
        /\ Returned(t, "export")
        /\ frame[t].inst = "A"
        /\ Len(Stored("A", "x").seq) = 2
        /\ "A" \in touched
        /\ Stored("B", "x").seq # Stored("A", "x").seq
        /\ Stored("B", "x").seq # <<>>

====
